---- MODULE Spec2Model ----
(***************************************************************************)
(* A model of the Paillier package (src/original/paillier.go): key         *)
(* generation, Encrypt, Decrypt and the two homomorphic combiners, over    *)
(* math/big integers and big-endian byte strings.                          *)
(*                                                                         *)
(* math/big integers are unbounded.  The model keeps every intermediate    *)
(* value below 2^31 by reducing products modulo the modulus while they are *)
(* formed (MulMod); the results are the ones Mul followed by Mod gives.    *)
(***************************************************************************)
EXTENDS Integers, Sequences, FiniteSets, TLC

VARIABLES pc, key, p, q, genErr, one, pool, last

vars == <<pc, key, p, q, genErr, one, pool, last>>

(***************************************************************************)
(* Bounds of the model.                                                    *)
(***************************************************************************)
\* bit sizes 0..MaxBits are passed to GenerateKey
MaxBits == 10
\* Encrypt draws r among the MaxDraws smallest primes rand.Prime can return
MaxDraws == 1
\* at most MaxCiphers ciphertexts of in-domain plaintexts are kept for reuse
MaxCiphers == 2
\* HommorphicEncMultiple is called with at most MaxK operands
MaxK == 2

(***************************************************************************)
(* math/big and crypto/rand, as the package uses them.                     *)
(***************************************************************************)
ErrNil == "nil"
ErrLargeMessage == "ErrLargeMessage"
ErrLargeCipher == "ErrLargeCipher"
\* the errors rand.Prime returns: a size below 2 bits, a failed read
ErrPrimeSize == "ErrPrimeSize"
ErrRead == "ErrRead"
\* a nil pointer dereference (Mul with a nil U)
ErrPanic == "panic"

\* a nil *big.Int (ModInverse returns nil when there is no inverse)
NilInt == -1

RECURSIVE Pow2(_)
Pow2(n) == IF n <= 0 THEN 1 ELSE 2 * Pow2(n - 1)

\* big.Int.SetBytes: a big-endian unsigned byte string to its integer
RECURSIVE SetBytes(_)
SetBytes(b) ==
  IF Len(b) = 0 THEN 0
  ELSE 256 * SetBytes(SubSeq(b, 1, Len(b) - 1)) + b[Len(b)]

\* big.Int.Bytes: the minimal big-endian byte string of |x|
RECURSIVE Bytes(_)
Bytes(x) ==
  LET v == IF x < 0 THEN 0 - x ELSE x
  IN IF v = 0 THEN << >> ELSE Append(Bytes(v \div 256), v % 256)

\* big.Int.Cmp
Cmp(x, y) == IF x < y THEN -1 ELSE IF x = y THEN 0 ELSE 1

\* big.Int.BitLen
RECURSIVE BitLen(_)
BitLen(x) == IF x <= 0 THEN 0 ELSE 1 + BitLen(x \div 2)

\* products are formed in pieces that stay below 2^31
Limit == Pow2(30)

\* Mod(Mul(a, b), n) for a, b >= 0 and 0 < n < 2^29: with k = Limit / n,
\* a * b = a * (b mod k) + k * (a * (b div k))
RECURSIVE MulMod(_, _, _)
MulMod(a, b, n) ==
  LET k == Limit \div n
  IN IF b = 0 THEN 0
     ELSE ((((a % n) * (b % k)) % n) + ((k * MulMod(a, b \div k, n)) % n)) % n

\* big.Int.Exp(x, y, m) for x >= 0 and m > 0: x^y mod m, and 1 for y <= 0
RECURSIVE Exp(_, _, _)
Exp(x, y, m) ==
  IF y <= 0 THEN 1 % m
  ELSE LET h == Exp(x, y \div 2, m)
           s == MulMod(h, h, m)
       IN IF y % 2 = 1 THEN MulMod(s, x, m) ELSE s

\* big.Int.ModInverse(g, n): the inverse of g in Z/nZ, nil when gcd(g, n) # 1
ModInverse(g, n) ==
  LET inv == {x \in 0..(n - 1) : MulMod(g, x, n) = 1 % n}
  IN IF inv = {} THEN NilInt ELSE CHOOSE x \in inv : TRUE

IsPrime(x) == x >= 2 /\ \A d \in 2..(x - 1) : d * d > x \/ x % d # 0

\* crypto/rand.Prime(_, bits): the primes it can return. The candidate has
\* exactly `bits` bits, its two most significant bits set and is odd.
Prime(bits) ==
  IF bits < 2 THEN {}
  ELSE {x \in (3 * Pow2(bits - 2))..(Pow2(bits) - 1) : x % 2 = 1 /\ IsPrime(x)}

\* rand.Prime per size, for the sizes that occur
Primes == [b \in 0..MaxBits |-> Prime(b)]

\* Encrypt's draws of r the model follows, per size: the smallest MaxDraws
Draws ==
  [b \in 0..MaxBits |->
     {x \in Primes[b] : Cardinality({y \in Primes[b] : y < x}) < MaxDraws}]

(***************************************************************************)
(* The package's functions.                                                *)
(***************************************************************************)
NoKey == [N |-> 0, G |-> 0, NSquared |-> 0, L |-> 0, U |-> 0]

\* BuildKey with the arguments of ModInverse swapped: u = n^(-1) mod l
BuildKeyInverseSwapped(pp, qq, oneV) ==
  LET n == pp * qq
      l == (pp - oneV) * (qq - oneV)
  IN [N |-> n, G |-> n + oneV, NSquared |-> n * n, L |-> l,
      U |-> ModInverse(n, l)]

\* GenerateKey, lines 106-129: the key built from the primes p and q
BuildKey(pp, qq, oneV) ==
  LET n == pp * qq
      l == (pp - oneV) * (qq - oneV)
  IN [N |-> n, G |-> n + oneV, NSquared |-> n * n, L |-> l,
      U |-> ModInverse(l, n)]

\* PublicKey.Encrypt with the drawn prime r
Encrypt(pub, plainText, r) ==
  LET m == SetBytes(plainText)
  IN IF Cmp(m, pub.NSquared) = 1
     THEN [err |-> ErrLargeMessage, val |-> << >>]
     ELSE [err |-> ErrNil,
           val |-> Bytes(MulMod(Exp(pub.G, m, pub.NSquared),
                                Exp(r, pub.N, pub.NSquared),
                                pub.NSquared))]

\* PrivateKey.Decrypt; a and l are the locals of the same names
Decrypt(priv, cipherText, oneV) ==
  LET c == SetBytes(cipherText)
      a == Exp(c, priv.L, priv.NSquared)
      l == (a - oneV) \div priv.N
  IN IF Cmp(c, priv.NSquared) = 1
     THEN [err |-> ErrLargeCipher, val |-> << >>, a |-> 0, l |-> 0]
     ELSE IF priv.U = NilInt
     THEN [err |-> ErrPanic, val |-> << >>, a |-> a, l |-> l]
     ELSE [err |-> ErrNil, val |-> Bytes((l * priv.U) % priv.N),
           a |-> a, l |-> l]

\* PublicKey.HomomorphicEncTwo
HomomorphicEncTwo(pub, c1, c2) ==
  LET cipherA == SetBytes(c1)
      cipherB == SetBytes(c2)
  IN IF Cmp(cipherA, pub.NSquared) = 1 /\ Cmp(cipherB, pub.NSquared) = 1
     THEN [err |-> ErrLargeCipher, val |-> << >>]
     ELSE [err |-> ErrNil, val |-> Bytes(MulMod(cipherA, cipherB, pub.NSquared))]

\* StoreMod with C as the receiver, C.Mod(...): the big.Int C points at is
\* overwritten, and that is `one` in the first round of the loop
StoreModInPlace(acc, v) ==
  [ref |-> acc.ref, val |-> v, one |-> IF acc.ref = "one" THEN v ELSE acc.one]

\* C = new(big.Int).Mod(...): the result goes to a fresh big.Int, which C
\* then points at; the big.Int C pointed at before is left alone.
\* acc is [ref, val, one]: the big.Int C points at ("one" or "fresh"), its
\* value, and the value of the package variable `one`.
StoreMod(acc, v) == [ref |-> "fresh", val |-> v, one |-> acc.one]

\* PublicKey.HommorphicEncMultiple: the loop over ciphers[i..], C = acc
RECURSIVE MultipleLoop(_, _, _, _)
MultipleLoop(pub, ciphers, i, acc) ==
  IF i > Len(ciphers)
  THEN [err |-> ErrNil, val |-> Bytes(acc.val), one |-> acc.one]
  ELSE LET cipher == SetBytes(ciphers[i])
       IN IF Cmp(cipher, pub.NSquared) = 1
          THEN [err |-> ErrLargeCipher, val |-> << >>, one |-> acc.one]
          ELSE MultipleLoop(pub, ciphers, i + 1,
                 StoreMod(acc, MulMod(acc.val, cipher, pub.NSquared)))

HommorphicEncMultiple(pub, ciphers, oneV) ==
  MultipleLoop(pub, ciphers, 1, [ref |-> "one", val |-> oneV, one |-> oneV])

(***************************************************************************)
(* The state: the key GenerateKey returned (p and q are its locals, kept   *)
(* to state the key invariant), the package variable `one`, the            *)
(* ciphertexts Encrypt returned for plaintexts below N together with those *)
(* plaintexts, and the last call with its arguments and its results.       *)
(***************************************************************************)
NoSrc == [op |-> "none", args |-> << >>]

NoCall ==
  [op |-> "none", args |-> << >>, err |-> ErrNil, val |-> << >>,
   a |-> 0, l |-> 0, src |-> NoSrc]

Call(op, args, res) ==
  [op |-> op, args |-> args, err |-> res.err, val |-> res.val,
   a |-> 0, l |-> 0, src |-> NoSrc]

\* the plaintexts passed to Encrypt: in the domain [0, N) and beyond it
Plain == {0, 1, key.N - 1, key.N, key.NSquared + 1}

\* the byte strings passed as ciphertexts: the ones Encrypt returned, and
\* one beyond N^2
Ciphers == {e.c : e \in pool} \cup {Bytes(key.NSquared + 1)}

\* the byte strings passed to Decrypt: also 0, N^2 and the last result
DecryptInputs ==
  Ciphers \cup {Bytes(0), Bytes(key.NSquared)}
          \cup (IF last.err = ErrNil /\ last.op \notin {"none", "Decrypt"}
               THEN {last.val} ELSE {})

RECURSIVE SeqsUpTo(_, _)
SeqsUpTo(S, n) ==
  IF n = 0 THEN {<< >>}
  ELSE LET shorter == SeqsUpTo(S, n - 1)
       IN shorter \cup {Append(s, x) : s \in shorter, x \in S}

Init ==
  /\ pc = "start"
  /\ key = NoKey
  /\ p = 0
  /\ q = 0
  /\ genErr = ErrNil
  /\ one = 1
  /\ pool = {}
  /\ last = NoCall

\* GenerateKey returns the error of rand.Prime: bits/2 is below 2
GenerateKeySizeErr(bits) ==
  /\ pc = "start"
  /\ bits \div 2 < 2
  /\ pc' = "failed"
  /\ genErr' = ErrPrimeSize
  /\ UNCHANGED <<key, p, q, one, pool, last>>

\* GenerateKey returns the error of rand.Prime: reading `random` failed
GenerateKeyReadErr(bits) ==
  /\ pc = "start"
  /\ bits \div 2 >= 2
  /\ pc' = "failed"
  /\ genErr' = ErrRead
  /\ UNCHANGED <<key, p, q, one, pool, last>>

\* GenerateKey draws p and q and returns the key with a nil error
GenerateKey(bits) ==
  /\ pc = "start"
  /\ bits \div 2 >= 2
  /\ \E pp \in Primes[bits \div 2], qq \in Primes[bits \div 2] :
       /\ p' = pp
       /\ q' = qq
       /\ key' = BuildKey(pp, qq, one)
  /\ pc' = "keyed"
  /\ genErr' = ErrNil
  /\ UNCHANGED <<one, pool, last>>

EncryptCall(m, r) ==
  /\ pc = "keyed"
  /\ LET res == Encrypt(key, Bytes(m), r)
     IN /\ last' = Call("Encrypt", <<Bytes(m)>>, res)
        /\ pool' = IF res.err = ErrNil /\ m < key.N
                      /\ Cardinality(pool) < MaxCiphers
                   THEN pool \cup {[m |-> m, c |-> res.val]}
                   ELSE pool
  /\ UNCHANGED <<pc, key, p, q, genErr, one>>

DecryptCall(c) ==
  /\ pc = "keyed"
  /\ LET res == Decrypt(key, c, one)
     IN last' = [op |-> "Decrypt", args |-> <<c>>, err |-> res.err,
                 val |-> res.val, a |-> res.a, l |-> res.l,
                 src |-> IF last.err = ErrNil /\ last.op # "none"
                            /\ last.op # "Decrypt" /\ last.val = c
                         THEN [op |-> last.op, args |-> last.args]
                         ELSE NoSrc]
  /\ UNCHANGED <<pc, key, p, q, genErr, one, pool>>

HomomorphicEncTwoCall(c1, c2) ==
  /\ pc = "keyed"
  /\ last' = Call("HomomorphicEncTwo", <<c1, c2>>, HomomorphicEncTwo(key, c1, c2))
  /\ UNCHANGED <<pc, key, p, q, genErr, one, pool>>

HommorphicEncMultipleCall(cs) ==
  /\ pc = "keyed"
  /\ LET res == HommorphicEncMultiple(key, cs, one)
     IN /\ last' = Call("HommorphicEncMultiple", cs, res)
        /\ one' = res.one
  /\ UNCHANGED <<pc, key, p, q, genErr, pool>>

Next ==
  \/ \E bits \in 0..MaxBits : GenerateKeySizeErr(bits)
  \/ \E bits \in 0..MaxBits : GenerateKeyReadErr(bits)
  \/ \E bits \in 0..MaxBits : GenerateKey(bits)
  \/ \E m \in Plain, r \in Draws[BitLen(key.N)] : EncryptCall(m, r)
  \/ \E c \in DecryptInputs : DecryptCall(c)
  \/ \E c1 \in Ciphers, c2 \in Ciphers : HomomorphicEncTwoCall(c1, c2)
  \/ \E cs \in SeqsUpTo(Ciphers, MaxK) : HommorphicEncMultipleCall(cs)

Spec == Init /\ [][Next]_vars

(***************************************************************************)
(* Properties.                                                             *)
(***************************************************************************)
Keyed == pc = "keyed"

\* the integer of the i-th argument of the last call
Arg(i) == SetBytes(last.args[i])

\* the last call is Decrypt of the result the call `op` returned
DecryptOf(op) == last.op = "Decrypt" /\ last.src.op = op

\* the plaintext whose ciphertext, returned by Encrypt, is c
PlainOf(c) == (CHOOSE e \in pool : e.c = c).m

FromPool(cs) == \A i \in 1..Len(cs) : \E e \in pool : e.c = cs[i]

RECURSIVE SumPlain(_)
SumPlain(cs) ==
  IF Len(cs) = 0 THEN 0 ELSE PlainOf(Head(cs)) + SumPlain(Tail(cs))

\* C1: Decrypt of the ciphertext Encrypt returned for a plaintext m < N,
\* under any generated key (p = q included), succeeds and returns m.
RoundTrip ==
  (Keyed /\ DecryptOf("Encrypt") /\ SetBytes(last.src.args[1]) < key.N)
    => (last.err = ErrNil /\ SetBytes(last.val) = SetBytes(last.src.args[1]))

\* C2: HomomorphicEncTwo of two ciphertexts Encrypt returned for m1, m2 < N
\* succeeds, and Decrypt of its result returns (m1 + m2) mod N.
PairwiseHomomorphism ==
  /\ (Keyed /\ last.op = "HomomorphicEncTwo" /\ FromPool(last.args))
       => last.err = ErrNil
  /\ (Keyed /\ DecryptOf("HomomorphicEncTwo") /\ FromPool(last.src.args))
       => (last.err = ErrNil
           /\ SetBytes(last.val) = SumPlain(last.src.args) % key.N)

\* C3: HommorphicEncMultiple of k >= 0 ciphertexts Encrypt returned for
\* m1..mk < N succeeds, and Decrypt of its result returns (m1+...+mk) mod N;
\* for k = 0 the result is the encoding of 1.
NaryHomomorphism ==
  /\ (Keyed /\ last.op = "HommorphicEncMultiple" /\ FromPool(last.args))
       => (last.err = ErrNil /\ (last.args = << >> => last.val = <<1>>))
  /\ (Keyed /\ DecryptOf("HommorphicEncMultiple") /\ FromPool(last.src.args))
       => (last.err = ErrNil
           /\ SetBytes(last.val) = SumPlain(last.src.args) % key.N)

\* C4: a key GenerateKey returned with a nil error has G = N + 1,
\* NSquared = N * N, L = (p-1)(q-1), a U that is not nil, and U * L mod N = 1.
KeyInvariant ==
  Keyed => /\ genErr = ErrNil
           /\ key.G = key.N + 1
           /\ key.NSquared = key.N * key.N
           /\ key.L = (p - 1) * (q - 1)
           /\ key.U # NilInt
           /\ (key.U * key.L) % key.N = 1

KeyFromDistinctPrimes == Keyed /\ p # q /\ key.N = p * q

\* C5: Encrypt of a plaintext m >= N returns ErrLargeMessage and no ciphertext.
EncryptBoundRejection ==
  (Keyed /\ last.op = "Encrypt" /\ Arg(1) >= key.N)
    => (last.err = ErrLargeMessage /\ last.val = << >>)

\* C6: Decrypt of c >= N^2 returns ErrLargeCipher and no plaintext; Decrypt
\* of c < N^2 does not return ErrLargeCipher.
DecryptBoundRejection ==
  (Keyed /\ last.op = "Decrypt")
    => /\ Arg(1) >= key.NSquared
            => (last.err = ErrLargeCipher /\ last.val = << >>)
       /\ Arg(1) < key.NSquared => last.err # ErrLargeCipher

\* C7: HomomorphicEncTwo returns ErrLargeCipher and no ciphertext when
\* either operand is above N^2.
PairwiseValidation ==
  (Keyed /\ last.op = "HomomorphicEncTwo"
     /\ (Arg(1) > key.NSquared \/ Arg(2) > key.NSquared))
    => (last.err = ErrLargeCipher /\ last.val = << >>)

\* the fold acc = HomomorphicEncTwo(acc, cs[i]) from i on, stopping at the
\* first error
RECURSIVE FoldTwo(_, _, _)
FoldTwo(cs, i, acc) ==
  IF i > Len(cs) THEN [err |-> ErrNil, val |-> acc]
  ELSE LET res == HomomorphicEncTwo(key, acc, cs[i])
       IN IF res.err # ErrNil THEN res ELSE FoldTwo(cs, i + 1, res.val)

Orders(n) == {f \in [1..n -> 1..n] : \A i \in 1..n : \E j \in 1..n : f[j] = i}

\* C8: HommorphicEncMultiple(c1..ck) has the outcome of the left fold of
\* HomomorphicEncTwo from the encoding of 1, and on success its result does
\* not depend on the order of c1..ck.
NaryIsRepeatedPairwise ==
  (Keyed /\ last.op = "HommorphicEncMultiple")
    => /\ [err |-> last.err, val |-> last.val] = FoldTwo(last.args, 1, Bytes(1))
       /\ last.err = ErrNil =>
            \A f \in Orders(Len(last.args)) :
              LET res == HommorphicEncMultiple(key,
                           [i \in 1..Len(last.args) |-> last.args[f[i]]], one)
              IN res.err = ErrNil /\ res.val = last.val

\* C9: in a Decrypt that passed the bound check, a = c^L mod N^2 is 1 modulo
\* N, so that Decrypt returns no plaintext computed from an inexact quotient.
ExactDivision ==
  (Keyed /\ last.op = "Decrypt" /\ last.err # ErrLargeCipher)
    => (last.a - 1) % key.N = 0

\* C10: once GenerateKey has returned, no call changes N, G, NSquared, L, U
\* or the package variable `one`.
Immutability == [][Keyed => (key' = key /\ one' = one)]_vars

CombinedOverOne ==
  /\ Keyed
  /\ last.op = "HommorphicEncMultiple"
  /\ last.err = ErrNil
  /\ Len(last.args) >= 2
  /\ one = 1
  /\ key = BuildKey(p, q, 1)

====
